---- MODULE Spec2Model ----
(***************************************************************************)
(* py-time-tracker: the TimeTracker class of src/lib/time_tracker.py and   *)
(* the demonstration script src/examples.py.                               *)
(*                                                                         *)
(* The Python list objects live in `heap` (reference -> list); a tracker   *)
(* object holds references to its two lists, exactly as the attributes     *)
(* self._entering_times / self._total_times do. The Python call stack of   *)
(* invocations of decorated callables is `calls`. time.time() is the       *)
(* integer `clock`, which only moves forward.                              *)
(***************************************************************************)
EXTENDS Integers, Sequences, FiniteSets, TLC

VARIABLES
    clock,      \* the value time.time() returns now
    trackers,   \* constructed TimeTracker objects: id -> attributes
    ctor,       \* (history) the arguments each tracker was constructed with, and when
    decorated,  \* the program's decorated functions: name -> callable
    heap,       \* list objects: reference -> list
    calls,      \* call stack: invocations of decorated callables in progress
    pending,    \* the exception propagating in the current context, or NoExc
    log,        \* the records handed to logger.log, in order
    emitted,    \* (history) per element of log: which invocation it belongs to
    arrived,    \* (history) the last outcome that reached a caller
    ncalls,     \* (history) number of invocations started so far
    nraw,       \* (history) number of direct _enter/_exit calls so far
    threads     \* the threads of a multi-threaded program: thread -> frame; <<>> if none

vars == <<clock, trackers, ctor, decorated, heap, calls, pending, log, emitted, arrived, ncalls, nraw, threads>>

----------------------------------------------------------------------------
(* Bounds of the model.                                                    *)

MaxClock == 2        \* the clock stops at MaxClock
MaxCalls == 3        \* invocations in a run of Spec
MaxInstCalls == 2    \* invocations and direct _enter/_exit calls in a run of SpecInstances
MaxOps == 3          \* invocations and direct _enter/_exit calls in a run of SpecOps
MaxErrClock == 3     \* the clock stops at MaxErrClock in a run of SpecError
MaxArgCalls == 2     \* invocations in a run of SpecArgs
MaxThreadCalls == 2  \* invocations, of all threads together, in a run of SpecThreads

(* Inputs.                                                                 *)

TrackerIds == {1, 2}
Functions == {"f", "g"}
\* The function a program defines and decorates right after building its t-th tracker.
FunctionOf(t) == IF t = 1 THEN "f" ELSE "g"
ArgsSet == {<<1>>}
KwargsSet == {{}}
Results == {"r"}
Failures == {"Booo"}

NoExc == "none"
IndexError == "IndexError"
LoggerError == "LoggerError"

Return(v) == [kind |-> "return", val |-> v]
Raise(e) == [kind |-> "raise", val |-> e]

NoArrival == [id |-> 0, wrapped |-> FALSE, body |-> Return("r"), exit_raised |-> NoExc, outcome |-> Return("r")]

Last(s) == s[Len(s)]
Front(s) == SubSeq(s, 1, Len(s) - 1)

----------------------------------------------------------------------------
(* Module globals and TimeTracker.__init__                                 *)

\* References of the two module-level lists.
_time_tracker_global_entering_times == <<0, "entering_times">>
_time_tracker_global_total_times == <<0, "total_times">>

\* The heap after the module is imported: the two global lists exist.
ModuleHeap == (_time_tracker_global_entering_times :> <<>>) @@ (_time_tracker_global_total_times :> <<0>>)

\* Mutant of __init__: the isolated flag is ignored, every tracker is bound to the
\* module's lists.
__init___always_global(t, do_time_tracking, isolated, h) ==
    [self |-> [_do_time_tracking |-> do_time_tracking,
               _entering_times |-> _time_tracker_global_entering_times,
               _total_times |-> _time_tracker_global_total_times],
     heap |-> h]

\* Mutant of __init__: a shared tracker starts from copies of the module's lists
\* (list(...)) instead of the lists themselves.
__init___copies(t, do_time_tracking, isolated, h) ==
    IF isolated
    THEN [self |-> [_do_time_tracking |-> do_time_tracking,
                    _entering_times |-> <<t, "entering_times">>,
                    _total_times |-> <<t, "total_times">>],
          heap |-> (<<t, "entering_times">> :> <<>>) @@ (<<t, "total_times">> :> <<0>>) @@ h]
    ELSE [self |-> [_do_time_tracking |-> do_time_tracking,
                    _entering_times |-> <<t, "entering_times">>,
                    _total_times |-> <<t, "total_times">>],
          heap |-> (<<t, "entering_times">> :> h[_time_tracker_global_entering_times])
                   @@ (<<t, "total_times">> :> h[_time_tracker_global_total_times]) @@ h]

\* TimeTracker(logger, do_time_tracking, isolated) for the object with identity
\* t: the object's attributes and the heap after the constructor ran.
__init__(t, do_time_tracking, isolated, h) ==
    IF isolated
    THEN [self |-> [_do_time_tracking |-> do_time_tracking,
                    _entering_times |-> <<t, "entering_times">>,
                    _total_times |-> <<t, "total_times">>],
          heap |-> (<<t, "entering_times">> :> <<>>) @@ (<<t, "total_times">> :> <<0>>) @@ h]
    ELSE [self |-> [_do_time_tracking |-> do_time_tracking,
                    _entering_times |-> _time_tracker_global_entering_times,
                    _total_times |-> _time_tracker_global_total_times],
          heap |-> h]

----------------------------------------------------------------------------
(* TimeTracker._enter and TimeTracker._exit                                *)

\* Mutant of _enter: a call that starts on the empty stack resets the root accumulator.
_enter_resets_root(self, h, now) ==
    [h EXCEPT ![self._entering_times] = Append(@, now),
              ![self._total_times] = IF Len(h[self._entering_times]) = 0
                                     THEN <<0, 0>> ELSE Append(@, 0)]

\* Mutant of _enter: the accumulator of the new call is not pushed.
_enter_no_accumulator(self, h, now) ==
    [h EXCEPT ![self._entering_times] = Append(@, now)]

_enter(self, h, now) ==
    [h EXCEPT ![self._entering_times] = Append(@, now),
              ![self._total_times] = Append(@, 0)]

\* Mutant of exit_times: line 29 without the entering time.
exit_times_no_enter(enter_time, inner_total_time, exit_time) ==
    [total_time |-> exit_time, partial_time |-> exit_time - inner_total_time]

\* Mutant of exit_times: the operands of line 29 in the other order.
exit_times_swapped(enter_time, inner_total_time, exit_time) ==
    LET total_time == enter_time - exit_time
    IN  [total_time |-> total_time, partial_time |-> total_time - inner_total_time]

\* Mutant of list_pop: pop(0), the first element is removed.
list_pop_first(l) == [value |-> Head(l), rest |-> Tail(l)]

\* Mutant of list_pop: reads the last element without removing it (l[-1]).
list_peek(l) == [value |-> Last(l), rest |-> l]

\* list.pop() on a non-empty list: the element removed and the list left.
list_pop(l) == [value |-> Last(l), rest |-> Front(l)]

\* lines 28-30: the two durations of the record.
exit_times(enter_time, inner_total_time, exit_time) ==
    LET total_time == exit_time - enter_time
    IN  [total_time |-> total_time, partial_time |-> total_time - inner_total_time]

\* Mutant of add_to_last: line 32 is missing.
add_to_last_skipped(total_times, total_time) == total_times

\* Mutant of add_to_last: assigns instead of accumulating (= for +=).
add_to_last_overwrite(total_times, total_time) ==
    [total_times EXCEPT ![Len(total_times)] = total_time]

\* line 32: self._total_times[-1] += total_time
add_to_last(total_times, total_time) ==
    [total_times EXCEPT ![Len(total_times)] = @ + total_time]

\* Mutant of _exit: the logger is called first, the lists are updated after it.
_exit_logs_first(self, h, now, function_name, args, kwargs, log_raises) ==
    IF Len(h[self._entering_times]) = 0 \/ Len(h[self._total_times]) < 2
    THEN [heap |-> h, logged |-> <<>>, raised |-> IndexError]
    ELSE
    LET t == exit_times(Last(h[self._entering_times]), Last(h[self._total_times]), now)
        record == [function_name |-> function_name,
                   args |-> args,
                   kwargs |-> kwargs,
                   total_time |-> t.total_time,
                   partial_time |-> t.partial_time]
    IN  IF log_raises
        THEN [heap |-> h, logged |-> <<record>>, raised |-> LoggerError]
        ELSE [heap |-> [h EXCEPT ![self._entering_times] = Front(@),
                                 ![self._total_times] = add_to_last(Front(@), t.total_time)],
              logged |-> <<record>>,
              raised |-> NoExc]

\* Mutant of _exit: lines 25 and 26 in the other order, so that the accumulator
\* is popped before the pop of the entry timestamp can fail.
_exit_swapped_pops(self, h, now, function_name, args, kwargs, log_raises) ==
    IF Len(h[self._total_times]) = 0
    THEN [heap |-> h, logged |-> <<>>, raised |-> IndexError]
    ELSE
    LET inner_total_time == list_pop(h[self._total_times]).value
        h1 == [h EXCEPT ![self._total_times] = list_pop(@).rest]
    IN
    IF Len(h1[self._entering_times]) = 0
    THEN [heap |-> h1, logged |-> <<>>, raised |-> IndexError]
    ELSE
    LET enter_time == list_pop(h1[self._entering_times]).value
        h2 == [h1 EXCEPT ![self._entering_times] = list_pop(@).rest]
        t == exit_times(enter_time, inner_total_time, now)
    IN
    IF Len(h2[self._total_times]) = 0
    THEN [heap |-> h2, logged |-> <<>>, raised |-> IndexError]
    ELSE
    [heap |-> [h2 EXCEPT ![self._total_times] = add_to_last(@, t.total_time)],
     logged |-> <<[function_name |-> function_name,
                   args |-> args,
                   kwargs |-> kwargs,
                   total_time |-> t.total_time,
                   partial_time |-> t.partial_time]>>,
     raised |-> IF log_raises THEN LoggerError ELSE NoExc]

\* The whole of _exit, statement by statement. list.pop() and list[-1] raise
\* IndexError on an empty list, leaving the statements before them done.
\* log_raises: whether logger.log raises for this record.
_exit(self, h, now, function_name, args, kwargs, log_raises) ==
    IF Len(h[self._entering_times]) = 0
    THEN [heap |-> h, logged |-> <<>>, raised |-> IndexError]
    ELSE
    LET enter_time == list_pop(h[self._entering_times]).value
        h1 == [h EXCEPT ![self._entering_times] = list_pop(@).rest]
    IN
    IF Len(h1[self._total_times]) = 0
    THEN [heap |-> h1, logged |-> <<>>, raised |-> IndexError]
    ELSE
    LET inner_total_time == list_pop(h1[self._total_times]).value
        h2 == [h1 EXCEPT ![self._total_times] = list_pop(@).rest]
        t == exit_times(enter_time, inner_total_time, now)
    IN
    IF Len(h2[self._total_times]) = 0
    THEN [heap |-> h2, logged |-> <<>>, raised |-> IndexError]
    ELSE
    [heap |-> [h2 EXCEPT ![self._total_times] = add_to_last(@, t.total_time)],
     logged |-> <<[function_name |-> function_name,
                   args |-> args,
                   kwargs |-> kwargs,
                   total_time |-> t.total_time,
                   partial_time |-> t.partial_time]>>,
     raised |-> IF log_raises THEN LoggerError ELSE NoExc]

----------------------------------------------------------------------------
(* TimeTracker.time_track                                                  *)

\* An undecorated function of the program; wrapper 0 means "not wrapped".
Original(name) == [name |-> name, wrapper |-> 0]

\* Mutant of time_track: the do_time_tracking switch is ignored.
time_track_always(t, self, function) == [name |-> function.name, wrapper |-> t]

\* time_track()(function) on tracker t: the callable the decorator returns.
time_track(t, self, function) ==
    IF self._do_time_tracking
    THEN [name |-> function.name, wrapper |-> t]
    ELSE function

\* Mutant of finally_runs: an except clause in place of finally, _exit only on a failure.
finally_only_on_raise(body) == body.kind = "raise"

\* Mutant of finally_runs: no try/finally, _exit is called after the call returns.
finally_skipped_on_raise(body) == body.kind = "return"

\* wrapped, lines 53-56: the finally clause runs self._exit however the body ended.
finally_runs(body) == TRUE

\* Mutant of wrapped_outcome: the wrapper catches what _exit raises.
wrapped_outcome_body_wins(body, exit_raised) == body

\* Mutant of wrapped_outcome: the wrapper returns from inside the finally clause,
\* which discards the exception in flight.
wrapped_outcome_swallow(body, exit_raised) ==
    IF exit_raised # NoExc THEN Raise(exit_raised)
    ELSE IF body.kind = "raise" THEN Return("None") ELSE body

\* wrapped, lines 53-58: what leaves the wrapper, given how the body ended and
\* what _exit raised in the finally clause (an exception raised in a finally
\* clause replaces the one in flight).
wrapped_outcome(body, exit_raised) ==
    IF exit_raised # NoExc THEN Raise(exit_raised) ELSE body

----------------------------------------------------------------------------
(* State                                                                   *)

\* examples.py lines 8-9: time_tracker = TimeTracker(logger, True)
time_tracker == __init__(1, TRUE, TRUE, ModuleHeap)

\* The program of examples.py once its tracker is built and its functions are
\* decorated with time_tracker.time_track(), before any of them is called.
Init ==
    /\ clock = 0
    /\ trackers = <<time_tracker.self>>
    /\ ctor = <<[do_time_tracking |-> TRUE, isolated |-> TRUE, when |-> 0]>>
    /\ decorated = [f \in Functions |-> [callable |-> time_track(1, time_tracker.self, Original(f)), by |-> 1]]
    /\ heap = time_tracker.heap
    /\ calls = <<>>
    /\ pending = NoExc
    /\ log = <<>>
    /\ emitted = <<>>
    /\ arrived = NoArrival
    /\ ncalls = 0
    /\ nraw = 0
    /\ threads = <<>>

\* A program that has imported the module and built no tracker yet.
InitModule ==
    /\ clock = 0
    /\ trackers = <<>>
    /\ ctor = <<>>
    /\ decorated = <<>>
    /\ heap = ModuleHeap
    /\ calls = <<>>
    /\ pending = NoExc
    /\ log = <<>>
    /\ emitted = <<>>
    /\ arrived = NoArrival
    /\ ncalls = 0
    /\ nraw = 0
    /\ threads = <<>>

Constructed == DOMAIN trackers

IsWrapped(fr) == fr.fn.wrapper # 0

\* (history) The wrapped invocations in progress, outermost first: <<id, tracker>>.
Enclosing ==
    LET w == SelectSeq(calls, IsWrapped)
    IN  [i \in 1..Len(w) |-> <<w[i].id, w[i].fn.wrapper>>]

\* time.time() moves forward.
Tick ==
    /\ clock < MaxClock
    /\ clock' = clock + 1
    /\ UNCHANGED <<trackers, ctor, decorated, heap, calls, pending, log, emitted, arrived, ncalls, nraw, threads>>

\* tracker = TimeTracker(logger, do_time_tracking, isolated), followed by the
\* definition of function f decorated with tracker.time_track().
Construct(do_time_tracking, isolated) ==
    LET t == Len(trackers) + 1
        f == FunctionOf(t)
        new == __init__(t, do_time_tracking, isolated, heap)
    IN  /\ pending = NoExc
        /\ t \in TrackerIds
        /\ IF calls = <<>> THEN TRUE ELSE Last(calls).pc = "body"
        /\ trackers' = Append(trackers, new.self)
        /\ ctor' = Append(ctor, [do_time_tracking |-> do_time_tracking, isolated |-> isolated,
                                 when |-> ncalls])
        /\ decorated' = (f :> [callable |-> time_track(t, new.self, Original(f)), by |-> t]) @@ decorated
        /\ heap' = new.heap
        /\ UNCHANGED <<clock, calls, pending, log, emitted, arrived, ncalls, nraw, threads>>

\* A call of the decorated function f: wrapped's line 52 when the decorator
\* returned the wrapper, the start of the original's body when it returned the
\* original.
\* The frame holds the invocation's callable and arguments, where it is (pc),
\* the locals step and acc of a body that uses them (fibo), and as history: its
\* id, the tracker that decorated it (by), the clock and the stack depth at its
\* start, the wrapped invocations around it, how its body ended (body), what
\* _exit raised (exit_raised) and what leaves the wrapper (outcome).
Invoke(f, args, kwargs, limit) ==
    /\ pending = NoExc
    /\ f \in DOMAIN decorated
    /\ ncalls + nraw < limit
    /\ IF calls = <<>> THEN TRUE ELSE Last(calls).pc = "body"
    /\ LET fn == decorated[f].callable
           fr == [id |-> ncalls + 1, by |-> decorated[f].by, fn |-> fn,
                  args |-> args, kwargs |-> kwargs,
                  pc |-> "body", body |-> Return("r"), exit_raised |-> NoExc,
                  outcome |-> Return("r"),
                  step |-> 0, acc |-> 0,
                  entry |-> clock, encl |-> Enclosing,
                  depth0 |-> IF fn.wrapper = 0 THEN 0
                             ELSE Len(heap[trackers[fn.wrapper]._entering_times])]
       IN  /\ heap' = IF fn.wrapper = 0 THEN heap
                      ELSE _enter(trackers[fn.wrapper], heap, clock)
           /\ calls' = Append(calls, fr)
    /\ ncalls' = ncalls + 1
    /\ UNCHANGED <<clock, trackers, ctor, decorated, pending, log, emitted, arrived, nraw, threads>>

\* How the body of the innermost invocation may end: an exception that reached
\* it goes on through it; otherwise it returns a result or raises.
BodyOutcomes ==
    IF pending # NoExc THEN {Raise(pending)}
    ELSE {Return(r) : r \in Results} \cup {Raise(e) : e \in Failures}

\* wrapped, lines 53-56: the body of the innermost wrapped invocation ends and
\* the finally clause runs _exit.
BodyEnds(body, log_raises) ==
    /\ calls # <<>>
    /\ Last(calls).pc = "body"
    /\ IsWrapped(Last(calls))
    /\ LET fr == Last(calls)
           self == trackers[fr.fn.wrapper]
           r == IF finally_runs(body)
                THEN _exit(self, heap, clock, fr.fn.name, fr.args, fr.kwargs, log_raises)
                ELSE [heap |-> heap, logged |-> <<>>, raised |-> NoExc]
       IN  /\ IF r.logged = <<>> THEN ~log_raises ELSE TRUE
           /\ heap' = r.heap
           /\ log' = log \o r.logged
           /\ emitted' = IF r.logged = <<>> THEN emitted
                         ELSE Append(emitted, [id |-> fr.id, tracker |-> fr.fn.wrapper,
                                               entry |-> fr.entry, exit |-> clock,
                                               encl |-> fr.encl])
           /\ calls' = [calls EXCEPT ![Len(calls)] =
                          [fr EXCEPT !.pc = "done", !.body = body, !.exit_raised = r.raised,
                                     !.outcome = wrapped_outcome(body, r.raised)]]
    /\ pending' = NoExc
    /\ UNCHANGED <<clock, trackers, ctor, decorated, arrived, ncalls, nraw, threads>>

\* wrapped, line 58 (or the exception leaving the try statement): the wrapper's
\* result or exception reaches its caller.
Deliver ==
    /\ calls # <<>>
    /\ Last(calls).pc = "done"
    /\ LET fr == Last(calls)
       IN  /\ calls' = Front(calls)
           /\ pending' = IF fr.outcome.kind = "raise" THEN fr.outcome.val ELSE NoExc
           /\ arrived' = [id |-> fr.id, wrapped |-> TRUE, body |-> fr.body,
                           exit_raised |-> fr.exit_raised, outcome |-> fr.outcome]
    /\ UNCHANGED <<clock, trackers, ctor, decorated, heap, log, emitted, ncalls, nraw, threads>>

\* The body of an undecorated function (what a disabled tracker's decorator
\* returned) ends: its result or exception reaches the caller directly.
PlainEnds(body) ==
    /\ calls # <<>>
    /\ Last(calls).pc = "body"
    /\ ~IsWrapped(Last(calls))
    /\ LET fr == Last(calls)
       IN  /\ calls' = Front(calls)
           /\ pending' = IF body.kind = "raise" THEN body.val ELSE NoExc
           /\ arrived' = [id |-> fr.id, wrapped |-> FALSE, body |-> body,
                           exit_raised |-> NoExc, outcome |-> body]
    /\ UNCHANGED <<clock, trackers, ctor, decorated, heap, log, emitted, ncalls, nraw, threads>>

\* try/except around a top-level call (examples.py lines 59-62).
Handle ==
    /\ pending # NoExc
    /\ calls = <<>>
    /\ pending' = NoExc
    /\ UNCHANGED <<clock, trackers, ctor, decorated, heap, calls, log, emitted, arrived, ncalls, nraw, threads>>

----------------------------------------------------------------------------
(* Spec: one enabled, isolated tracker (the program of examples.py with     *)
(* arbitrary bodies); bodies and the logger may fail.                       *)

Next ==
    \/ Tick
    \/ \E f \in Functions, a \in ArgsSet, k \in KwargsSet : Invoke(f, a, k, MaxCalls)
    \/ \E b \in BodyOutcomes, l \in BOOLEAN : BodyEnds(b, l)
    \/ Deliver
    \/ Handle

Spec == Init /\ [][Next]_vars

----------------------------------------------------------------------------
(* Properties of Spec                                                       *)

RECURSIVE SumSeq(_)
SumSeq(q) == IF q = <<>> THEN 0 ELSE q[1] + SumSeq(Tail(q))

\* (history) The duration of the invocation a record belongs to, on the clock.
TotalOf(e) == e.exit - e.entry

\* (history) The innermost enclosing wrapped invocation that accounts on the
\* same list as e's tracker: its id, or 0 for the root.
ParentOf(e) ==
    LET same == SelectSeq(e.encl, LAMBDA p : trackers[p[2]]._total_times = trackers[e.tracker]._total_times)
    IN  IF same = <<>> THEN 0 ELSE Last(same)[1]

\* (history) The durations of the direct nested invocations of invocation id.
DirectChildTotals(id) ==
    LET kids == SelectSeq(emitted, LAMBDA e : ParentOf(e) = id)
    IN  [i \in 1..Len(kids) |-> TotalOf(kids[i])]

\* C2: every record has total_time = clock at exit - clock at its own entry and
\* partial_time = total_time - the sum of the total_time of its direct nested
\* instrumented calls only.
C2_RecordTimes ==
    \A i \in DOMAIN log :
        /\ log[i].total_time = TotalOf(emitted[i])
        /\ log[i].partial_time = log[i].total_time - SumSeq(DirectChildTotals(emitted[i].id))

\* A record of a call with a direct nested call that itself has a nested call,
\* each of them lasting.
C2_Witness ==
    \E i, j, k \in DOMAIN log :
        /\ ParentOf(emitted[j]) = emitted[i].id
        /\ ParentOf(emitted[k]) = emitted[j].id
        /\ TotalOf(emitted[k]) > 0
        /\ log[i].partial_time > 0

\* (history) How many records were handed to logger.log for invocation id.
RecordsOf(id) == Cardinality({i \in DOMAIN emitted : emitted[i].id = id})

InProgress == {calls[i].id : i \in DOMAIN calls}

\* C3: an invocation of a wrapped callable has no record while its body runs,
\* exactly one once its wrapper has run _exit, which is before its result or
\* failure reaches the caller, and exactly one ever after; a failure that
\* unwound through k wrapped calls to the top level left k records.
C3_OneRecordPerCall ==
    /\ \A i \in DOMAIN calls :
          RecordsOf(calls[i].id) = IF calls[i].pc = "done" THEN 1 ELSE 0
    /\ \A id \in (1..ncalls) \ InProgress : RecordsOf(id) = 1
    /\ Len(log) = Len(emitted)
    /\ (calls = <<>>) => (Len(log) = ncalls)

\* A failure raised by the body of call 2, nested in call 1, has reached call
\* 1's body and unwound through it: two records.
C3_Witness ==
    /\ Len(calls) = 1
    /\ calls[1].pc = "done"
    /\ calls[1].body = Raise("Booo")
    /\ arrived.id = 2
    /\ arrived.body = Raise("Booo")
    /\ arrived.outcome = Raise("Booo")
    /\ Len(log) = 2

DepthOf(fr) == Len(heap[trackers[fr.fn.wrapper]._entering_times])

\* C5: once the wrapper of an invocation has run its exit, the depth of the
\* tracker's stack is what it was before the invocation's enter, also when the
\* body failed; with no invocation in progress the tracker is EMPTY again.
C5_DepthRestored ==
    /\ \A i \in DOMAIN calls :
          IsWrapped(calls[i]) =>
              IF i = Len(calls)
              THEN DepthOf(calls[i]) = calls[i].depth0 + (IF calls[i].pc = "done" THEN 0 ELSE 1)
              ELSE calls[i + 1].depth0 = calls[i].depth0 + 1
    /\ (calls = <<>>) => \A t \in Constructed : heap[trackers[t]._entering_times] = <<>>

\* A wrapped call whose body failed, nested in another, has exited.
C5_Witness ==
    /\ Len(calls) = 2
    /\ calls[2].pc = "done"
    /\ calls[2].body.kind = "raise"
    /\ calls[2].depth0 = 1
    /\ DepthOf(calls[2]) = 1

----------------------------------------------------------------------------
(* SpecOps: the program also calls the tracker's _enter and _exit directly, *)
(* in any order, at the top level or from inside a body; the logger does    *)
(* not fail.                                                                *)

\* tracker._enter() called directly.
RawEnter(t, limit) ==
    /\ pending = NoExc
    /\ t \in Constructed
    /\ ncalls + nraw < limit
    /\ IF calls = <<>> THEN TRUE ELSE Last(calls).pc = "body"
    /\ heap' = _enter(trackers[t], heap, clock)
    /\ nraw' = nraw + 1
    /\ UNCHANGED <<clock, trackers, ctor, decorated, calls, pending, log, emitted, arrived, ncalls, threads>>

\* tracker._exit(function_name, args, kwargs) called directly (the specifications
\* pass it the name "direct"); an exception it raises propagates in the calling
\* context.
RawExit(t, function_name, args, kwargs, log_raises, limit) ==
    /\ pending = NoExc
    /\ t \in Constructed
    /\ ncalls + nraw < limit
    /\ IF calls = <<>> THEN TRUE ELSE Last(calls).pc = "body"
    /\ LET r == _exit(trackers[t], heap, clock, function_name, args, kwargs, log_raises)
       IN  /\ IF r.logged = <<>> THEN ~log_raises ELSE TRUE
           /\ heap' = r.heap
           /\ log' = log \o r.logged
           /\ emitted' = IF r.logged = <<>> THEN emitted
                         ELSE Append(emitted, [id |-> 0, tracker |-> t, entry |-> clock,
                                               exit |-> clock, encl |-> <<>>])
           /\ pending' = r.raised
    /\ nraw' = nraw + 1
    /\ UNCHANGED <<clock, trackers, ctor, decorated, calls, arrived, ncalls, threads>>

NextOps ==
    \/ Tick
    \/ \E f \in Functions, a \in ArgsSet, k \in KwargsSet : Invoke(f, a, k, MaxOps)
    \/ \E b \in BodyOutcomes : BodyEnds(b, FALSE)
    \/ Deliver
    \/ Handle
    \/ \E t \in TrackerIds : RawEnter(t, MaxOps)
    \/ \E t \in TrackerIds, a \in ArgsSet, k \in KwargsSet : RawExit(t, "direct", a, k, FALSE, MaxOps)

SpecOps == Init /\ [][NextOps]_vars

entering_times(t) == heap[trackers[t]._entering_times]
total_times(t) == heap[trackers[t]._total_times]

\* C1: whatever enter, exit (successful or failing on an empty stack) and
\* wrapped-call operations were applied to a tracker, its accumulator list is
\* one element longer than its list of entry timestamps.
C1_LengthInvariant ==
    \A t \in Constructed : Len(total_times(t)) = Len(entering_times(t)) + 1

\* One wrapped call, one exit and one enter took place and left one record and
\* one unmatched enter: one exit failed on the empty stack.
C1_Witness ==
    /\ calls = <<>>
    /\ ncalls = 1
    /\ nraw = 2
    /\ Len(log) = 1
    /\ Len(entering_times(1)) = 1

\* The tracker a step calls exit on while its stack is empty: by a direct call
\* or by the finally clause of the innermost wrapped invocation.
ExitsOnEmpty(t) ==
    /\ t \in Constructed
    /\ entering_times(t) = <<>>
    /\ \/ \E a \in ArgsSet, k \in KwargsSet : RawExit(t, "direct", a, k, FALSE, MaxOps)
       \/ /\ calls # <<>>
          /\ Last(calls).fn.wrapper = t
          /\ \E b \in BodyOutcomes : BodyEnds(b, FALSE)

\* C6: exit on a tracker whose call stack is empty fails (with the IndexError
\* of list.pop(), the spec's UnbalancedStackError), hands no record to the
\* logger and leaves every list as it was: no entry timestamps, the root
\* accumulator alone with its value.
C6_ExitOnEmpty ==
    [][\A t \in TrackerIds :
          ExitsOnEmpty(t) =>
              /\ heap' = heap
              /\ log' = log
              /\ entering_times(t)' = <<>>
              /\ Len(total_times(t)') = 1
              /\ IF calls' = calls
                 THEN pending' = IndexError
                 ELSE Last(calls').outcome = Raise(IndexError)]_vars

\* A direct exit has failed on the empty tracker whose root accumulator holds
\* the time of an earlier call.
C6_Witness ==
    /\ pending = IndexError
    /\ calls = <<>>
    /\ entering_times(1) = <<>>
    /\ total_times(1) # <<0>>
    /\ Len(log) = 1

----------------------------------------------------------------------------
(* SpecInstances: a program that builds its trackers as it runs, each       *)
(* enabled or disabled, isolated or shared, and decorates one function with *)
(* each; it also calls _enter and _exit directly; the logger does not fail. *)

NextInstances ==
    \/ Tick
    \/ \E d \in BOOLEAN, i \in BOOLEAN : Construct(d, i)
    \/ \E f \in Functions, a \in ArgsSet, k \in KwargsSet : Invoke(f, a, k, MaxInstCalls)
    \/ \E b \in BodyOutcomes : BodyEnds(b, FALSE)
    \/ Deliver
    \/ \E b \in BodyOutcomes : PlainEnds(b)
    \/ Handle
    \/ \E t \in TrackerIds : RawEnter(t, MaxInstCalls)
    \/ \E t \in TrackerIds, a \in ArgsSet, k \in KwargsSet : RawExit(t, "direct", a, k, FALSE, MaxInstCalls)

SpecInstances == InitModule /\ [][NextInstances]_vars

\* The frame a step starts, ends or pops.
StepFrame == IF Len(calls') > Len(calls) THEN Last(calls') ELSE Last(calls)

\* C7: the decorator of a tracker built with do_time_tracking = false returns
\* the original callable, and every step of an invocation of it (start, return
\* or failure) performs no enter or exit: the lists and the log are unchanged.
C7_Disabled ==
    /\ [](\A f \in DOMAIN decorated :
            ~ctor[decorated[f].by].do_time_tracking => decorated[f].callable = Original(f))
    /\ [][(calls' # calls /\ ~ctor[StepFrame.by].do_time_tracking)
            => /\ ~IsWrapped(StepFrame)
               /\ heap' = heap
               /\ log' = log]_vars

\* The function decorated by the disabled tracker 2, which is bound to the
\* module's lists, was called inside a wrapped call and failed.
C7_Witness ==
    /\ Len(trackers) = 2
    /\ ~ctor[2].do_time_tracking
    /\ entering_times(2) # <<>>
    /\ arrived.id = 2
    /\ ~arrived.wrapped
    /\ arrived.outcome = Raise("Booo")
    /\ pending = "Booo"

\* A step is an enter or an exit on tracker a: made by the wrapper of one of
\* a's callables, or directly.
ActsOn(a) ==
    \/ /\ Len(calls') > Len(calls)
       /\ Last(calls').fn.wrapper = a
    \/ /\ Len(calls') = Len(calls)
       /\ calls' # calls
       /\ Last(calls).fn.wrapper = a
    \/ RawEnter(a, MaxInstCalls)
    \/ \E x \in ArgsSet, k \in KwargsSet : RawExit(a, "direct", x, k, FALSE, MaxInstCalls)

\* C8: an enter or exit on a tracker leaves the two lists of every other tracker
\* unchanged when one of the two was constructed isolated.
C8_Isolation ==
    [][\A a \in Constructed, b \in Constructed :
          (a # b /\ (ctor[a].isolated \/ ctor[b].isolated) /\ ActsOn(a))
              => /\ entering_times(b)' = entering_times(b)
                 /\ total_times(b)' = total_times(b)]_vars

\* A call through the shared tracker 2 is in progress inside a call through the
\* isolated tracker 1, and each tracker holds its own frame only.
C8_Witness ==
    /\ Len(trackers) = 2
    /\ ctor[1].isolated
    /\ ~ctor[2].isolated
    /\ Len(calls) = 2
    /\ calls[1].fn.wrapper = 1
    /\ calls[2].fn.wrapper = 2
    /\ entering_times(1) = <<0>>
    /\ entering_times(2) = <<1>>

SharedIds == {t \in Constructed : ~ctor[t].isolated}

\* (history) The innermost enclosing wrapped invocation made through a shared
\* tracker: its id, or 0.
SharedParentOf(e) ==
    LET sh == SelectSeq(e.encl, LAMBDA p : p[2] \in SharedIds)
    IN  IF sh = <<>> THEN 0 ELSE Last(sh)[1]

SharedChildTotals(id) ==
    LET kids == SelectSeq(emitted, LAMBDA e : e.tracker \in SharedIds /\ SharedParentOf(e) = id)
    IN  [i \in 1..Len(kids) |-> TotalOf(kids[i])]

\* C9: all trackers constructed with isolated = false see the same two lists;
\* a wrapped call made through one of them inside a wrapped call made through
\* another is subtracted from the outer call's partial_time as its nested call
\* (in a program that makes no direct _enter/_exit calls); and constructing a
\* shared tracker leaves the common lists as they are.
C9_Shared ==
    /\ [](\A a \in SharedIds, b \in SharedIds :
            /\ entering_times(a) = entering_times(b)
            /\ total_times(a) = total_times(b))
    /\ []((nraw = 0) =>
            \A i \in DOMAIN log :
                emitted[i].tracker \in SharedIds =>
                    log[i].partial_time = log[i].total_time - SumSeq(SharedChildTotals(emitted[i].id)))
    /\ [][(Len(trackers') > Len(trackers) /\ ~ctor'[Len(trackers')].isolated)
            => /\ heap'[_time_tracker_global_entering_times] = heap[_time_tracker_global_entering_times]
               /\ heap'[_time_tracker_global_total_times] = heap[_time_tracker_global_total_times]]_vars

\* Shared tracker 2 was built while a call through shared tracker 1 was in
\* progress; a call through tracker 2 then ran inside that call, lasted, and was
\* subtracted from it.
C9_Witness ==
    /\ SharedIds = {1, 2}
    /\ ctor[2].when = 1
    /\ nraw = 0
    /\ \E i, j \in DOMAIN log :
          /\ emitted[i].tracker = 1
          /\ emitted[j].tracker = 2
          /\ SharedParentOf(emitted[j]) = emitted[i].id
          /\ TotalOf(emitted[j]) > 0
          /\ log[i].partial_time < log[i].total_time

----------------------------------------------------------------------------
(* SpecFibo: examples.py lines 40-47, the wrapped doubly-recursive fibo run  *)
(* on fibo(5) with the Logger of examples.py, which prints and returns.     *)

\* examples.py line 47: fibo(5)
fibo_arg == 5

InitFibo ==
    /\ clock = 0
    /\ trackers = <<time_tracker.self>>
    /\ ctor = <<[do_time_tracking |-> TRUE, isolated |-> TRUE, when |-> 0]>>
    /\ decorated = [f \in {"fibo"} |-> [callable |-> time_track(1, time_tracker.self, Original(f)), by |-> 1]]
    /\ heap = time_tracker.heap
    /\ calls = <<>>
    /\ pending = NoExc
    /\ log = <<>>
    /\ emitted = <<>>
    /\ arrived = NoArrival
    /\ ncalls = 0
    /\ nraw = 0
    /\ threads = <<>>

\* Line 47, the top-level call, and line 45, the two recursive calls: fibo(n-1)
\* first, fibo(n-2) once it has returned.
FiboCall ==
    IF calls = <<>>
    THEN /\ ncalls = 0
         /\ Invoke("fibo", <<fibo_arg>>, {}, ncalls + 1)
    ELSE /\ Last(calls).pc = "body"
         /\ Last(calls).args[1] >= 2
         /\ Last(calls).step < 2
         /\ Invoke("fibo", <<Last(calls).args[1] - 1 - Last(calls).step>>, {}, ncalls + 1)

\* Lines 42-45: the body returns 1 for n = 0 or 1, and the sum of the two
\* results otherwise; the wrapper then runs its finally clause.
FiboReturn ==
    /\ calls # <<>>
    /\ Last(calls).pc = "body"
    /\ IF Last(calls).args[1] = 0 \/ Last(calls).args[1] = 1
       THEN BodyEnds(Return(1), FALSE)
       ELSE /\ Last(calls).step = 2
            /\ BodyEnds(Return(Last(calls).acc), FALSE)

\* wrapped, line 58: the result reaches the calling fibo body, which adds it to
\* its sum, or the top level.
FiboDeliver ==
    /\ calls # <<>>
    /\ Last(calls).pc = "done"
    /\ LET fr == Last(calls)
           rest == Front(calls)
       IN  /\ calls' = IF rest = <<>> THEN rest
                       ELSE [rest EXCEPT ![Len(rest)].step = @ + 1,
                                         ![Len(rest)].acc = @ + fr.outcome.val]
           /\ arrived' = [id |-> fr.id, wrapped |-> TRUE, body |-> fr.body,
                           exit_raised |-> fr.exit_raised, outcome |-> fr.outcome]
    /\ UNCHANGED <<clock, trackers, ctor, decorated, heap, pending, log, emitted, ncalls, nraw, threads>>

NextFibo ==
    \/ Tick
    \/ FiboCall
    \/ FiboReturn
    \/ FiboDeliver

SpecFibo == InitFibo /\ [][NextFibo]_vars

FiboDone == calls = <<>> /\ ncalls > 0

\* C10: every invocation of the recursion tree of the wrapped fibo pushes and
\* pops its own frame and emits its own record: fibo(5) emits 15 records, one
\* per invocation, and every record has 0 <= partial_time <= total_time.
C10_Fibo ==
    /\ \A i \in DOMAIN log :
          /\ log[i].function_name = "fibo"
          /\ 0 <= log[i].partial_time
          /\ log[i].partial_time <= log[i].total_time
    /\ \A i \in DOMAIN calls :
          RecordsOf(calls[i].id) = IF calls[i].pc = "done" THEN 1 ELSE 0
    /\ \A id \in (1..ncalls) \ InProgress : RecordsOf(id) = 1
    /\ Len(entering_times(1)) = Cardinality({i \in DOMAIN calls : calls[i].pc = "body"})
    /\ Len(log) + Cardinality({i \in DOMAIN calls : calls[i].pc = "body"}) = ncalls
    /\ FiboDone => /\ Len(log) = 15
                   /\ ncalls = 15
                   /\ arrived.outcome = Return(8)
                   /\ log[15].args = <<fibo_arg>>

\* fibo(5) has returned, time passed in it, and some call's record shows time
\* of its own and time of its nested calls.
C10_Witness ==
    /\ FiboDone
    /\ Len(log) = 15
    /\ \E i \in DOMAIN log : 0 < log[i].partial_time /\ log[i].partial_time < log[i].total_time

----------------------------------------------------------------------------
(* SpecError: examples.py lines 49-62, error_fun_caller calling error_fun,  *)
(* which raises, under a top-level try/except, with the Logger of           *)
(* examples.py. Time passes while the two bodies run (their time.sleep).    *)

InitError ==
    /\ clock = 0
    /\ trackers = <<time_tracker.self>>
    /\ ctor = <<[do_time_tracking |-> TRUE, isolated |-> TRUE, when |-> 0]>>
    /\ decorated = [f \in {"error_fun", "error_fun_caller"} |->
                       [callable |-> time_track(1, time_tracker.self, Original(f)), by |-> 1]]
    /\ heap = time_tracker.heap
    /\ calls = <<>>
    /\ pending = NoExc
    /\ log = <<>>
    /\ emitted = <<>>
    /\ arrived = NoArrival
    /\ ncalls = 0
    /\ nraw = 0
    /\ threads = <<>>

\* Lines 51 and 56, time.sleep, and the time the other statements take.
ErrSleep ==
    /\ clock < MaxErrClock
    /\ clock' = clock + 1
    /\ UNCHANGED <<trackers, ctor, decorated, heap, calls, pending, log, emitted, arrived, ncalls, nraw, threads>>

\* Line 60: error_fun_caller() at the top level.
ErrCallCaller ==
    /\ calls = <<>>
    /\ ncalls = 0
    /\ Invoke("error_fun_caller", <<>>, {}, ncalls + 1)

\* Line 57: error_fun() in the body of error_fun_caller.
ErrCallCallee ==
    /\ Len(calls) = 1
    /\ ncalls = 1
    /\ Invoke("error_fun", <<>>, {}, ncalls + 1)

\* Line 52: raise Exception('Booo'); the wrapper of error_fun runs its finally clause.
ErrRaise ==
    /\ Len(calls) = 2
    /\ BodyEnds(Raise("Booo"), FALSE)

\* The exception leaves line 57 and the body of error_fun_caller; the wrapper of
\* error_fun_caller runs its finally clause.
ErrUnwind ==
    /\ Len(calls) = 1
    /\ pending # NoExc
    /\ BodyEnds(Raise(pending), FALSE)

NextError ==
    \/ ErrSleep
    \/ ErrCallCaller
    \/ ErrCallCallee
    \/ ErrRaise
    \/ ErrUnwind
    \/ Deliver
    \/ Handle

SpecError == InitError /\ [][NextError]_vars

\* The failed callee has run its exit and its failure has not yet left its wrapper.
CalleeExited == Len(calls) = 2 /\ calls[2].pc = "done"

\* C11: the failed callee's total_time is added to the caller's accumulator by
\* the callee's exit, before the failure goes on; the caller's record then has
\* a total_time that covers the callee's whole duration and partial_time =
\* its total_time - the callee's total_time. A callee that fails after 2 ticks,
\* called 1 tick into the caller: caller total 3, partial 1.
C11_FailedCalleeCounted ==
    /\ CalleeExited =>
          /\ calls[2].outcome = Raise("Booo")
          /\ Len(log) = 1
          /\ log[1].total_time = emitted[1].exit - calls[2].entry
          /\ total_times(1) = <<0, log[1].total_time>>
    /\ Len(log) = 2 =>
          /\ log[1].function_name = "error_fun"
          /\ log[2].function_name = "error_fun_caller"
          /\ log[2].total_time = emitted[2].exit - emitted[2].entry
          /\ emitted[2].entry <= emitted[1].entry
          /\ emitted[1].exit <= emitted[2].exit
          /\ log[2].partial_time = log[2].total_time - log[1].total_time
          /\ (/\ emitted[1].entry = emitted[2].entry + 1
              /\ emitted[1].exit = emitted[1].entry + 2
              /\ emitted[2].exit = emitted[1].exit)
             => (log[2].total_time = 3 /\ log[2].partial_time = 1)

\* The scenario: the caller ran 1 tick, the callee 2 and failed, the failure has
\* reached the top level after both records.
C11_Witness ==
    /\ calls = <<>>
    /\ pending = "Booo"
    /\ Len(log) = 2
    /\ emitted[2].entry = 0
    /\ emitted[1].entry = 1
    /\ emitted[1].exit = 3
    /\ emitted[2].exit = 3
    /\ log[1].total_time = 2
    /\ log[2].total_time = 3
    /\ log[2].partial_time = 1

----------------------------------------------------------------------------
(* Further properties of Spec.                                              *)

\* (history) The ids of the wrapped invocations around the invocation of record e.
EnclosingIds(e) == {e.encl[i][1] : i \in DOMAIN e.encl}

\* (history) The ids of the records, in the order the logger received them.
EmittedIds == [i \in DOMAIN emitted |-> emitted[i].id]

\* (history) This step hands a record to the logger.
Emits == Len(emitted') = Len(emitted) + 1

\* C12: records reach the logger in exit order: the record of a nested call is
\* strictly before the record of every call around it, whether the nested call
\* returned or a failure unwinds (when a call's record is handed over, every
\* call started inside it already has its record), and the records of sibling
\* calls are in the order of the invocations.
C12_PostOrder ==
    /\ [](\A i, j \in DOMAIN emitted :
             /\ emitted[j].id \in EnclosingIds(emitted[i]) => i < j
             /\ (emitted[i].encl = emitted[j].encl /\ emitted[i].id < emitted[j].id) => i < j
             /\ i < j => emitted[i].exit <= emitted[j].exit)
    /\ [][Emits =>
            LET e == Last(emitted')
            IN  \A k \in (e.id + 1)..ncalls :
                   \E i \in DOMAIN emitted :
                      /\ emitted[i].id = k
                      /\ e.id \in EnclosingIds(emitted[i])]_vars

\* Call 1 invoked call 2, which returned, then call 3, which failed; the
\* failure unwound through call 1: the records are those of 2, 3, 1.
C12_Witness ==
    /\ Len(calls) = 1
    /\ calls[1].pc = "done"
    /\ calls[1].body = Raise("Booo")
    /\ arrived.id = 3
    /\ arrived.body = Raise("Booo")
    /\ EmittedIds = <<2, 3, 1>>
    /\ emitted[1].encl = emitted[2].encl
    /\ 1 \in EnclosingIds(emitted[1])

----------------------------------------------------------------------------
(* SpecArgs: the program of examples.py calling its wrapped functions with  *)
(* different positional and named arguments; the line of the wrapper that   *)
(* calls the original is a step of its own. Bodies and the logger may fail; *)
(* the clock stands still.                                                  *)

PositionalArgs == {<<>>, <<1>>, <<1, 2>>}
NamedArgs == {{}, {<<"n", 1>>}}
OriginalResults == {"r", "s"}

\* Mutant of call_original: function(*args), the named arguments are dropped.
call_original_no_kwargs(function, args, kwargs) == [function |-> function.name, args |-> args, kwargs |-> {}]

\* wrapped, line 54: function(*args, **kwargs); the function that is called
\* and the parameters its body receives.
call_original(function, args, kwargs) == [function |-> function.name, args |-> args, kwargs |-> kwargs]

\* A call of a wrapped function, at the top level or from a body that has started.
InvokeWith(f, args, kwargs) ==
    /\ IF calls = <<>> THEN TRUE ELSE Last(calls).step = 1
    /\ Invoke(f, args, kwargs, MaxArgCalls)

\* wrapped, line 54: after _enter, the wrapper calls the original.
CallOriginal ==
    /\ calls # <<>>
    /\ Last(calls).pc = "body"
    /\ Last(calls).step = 0
    /\ LET fr == Last(calls)
       IN  calls' = [calls EXCEPT ![Len(calls)] =
                        [fr EXCEPT !.step = fr.step + 1,
                                   !.acc = call_original(Original(fr.fn.name), fr.args, fr.kwargs)]]
    /\ UNCHANGED <<clock, trackers, ctor, decorated, heap, pending, log, emitted, arrived, ncalls, nraw, threads>>

\* How the original's body may end.
OriginalOutcomes ==
    IF pending # NoExc THEN {Raise(pending)}
    ELSE {Return(r) : r \in OriginalResults} \cup {Raise(e) : e \in Failures}

\* The original's body ends; lines 55-58 of the wrapper.
OriginalEnds(body, log_raises) ==
    /\ calls # <<>>
    /\ IF calls = <<>> THEN FALSE ELSE Last(calls).step = 1
    /\ BodyEnds(body, log_raises)

NextArgs ==
    \/ \E f \in Functions, a \in PositionalArgs, k \in NamedArgs : InvokeWith(f, a, k)
    \/ CallOriginal
    \/ \E b \in OriginalOutcomes, l \in BOOLEAN : OriginalEnds(b, l)
    \/ Deliver
    \/ Handle

SpecArgs == Init /\ [][NextArgs]_vars

\* (history) The index in log of the record of invocation id.
RecordOf(id) == CHOOSE i \in DOMAIN emitted : emitted[i].id = id

ArrivedInBody ==
    IF calls = <<>> THEN FALSE
    ELSE Last(calls).pc = "body" /\ Last(calls).id < arrived.id

\* C14: a failure raised by logger.log in _exit leaves the wrapper (nothing
\* catches it), reaches the body of the enclosing call and goes on through
\* every enclosing wrapped call, each of which still runs its own _exit: pops
\* its entries and hands its record to the logger.
C14_LoggerFailurePropagates ==
    /\ \A i \in DOMAIN calls :
          LET fr == calls[i]
          IN  /\ (fr.pc = "done" /\ fr.exit_raised = LoggerError)
                    => fr.outcome = Raise(LoggerError)
              /\ (fr.pc = "done" /\ fr.body = Raise(LoggerError))
                    => /\ fr.outcome = Raise(LoggerError)
                       /\ RecordsOf(fr.id) = 1
                       /\ DepthOf(fr) = fr.depth0
    /\ (arrived.wrapped /\ arrived.exit_raised = LoggerError)
          => arrived.outcome = Raise(LoggerError)
    /\ (ArrivedInBody /\ arrived.exit_raised = LoggerError) => pending = LoggerError
    /\ pending = LoggerError => arrived.outcome = Raise(LoggerError)

\* The logger failed for call 2, whose body had returned; the failure reached
\* the body of call 1 and left call 1 after call 1's own record.
C14_Witness ==
    /\ Len(calls) = 1
    /\ calls[1].pc = "done"
    /\ calls[1].body = Raise(LoggerError)
    /\ calls[1].exit_raised = NoExc
    /\ calls[1].outcome = Raise(LoggerError)
    /\ arrived.id = 2
    /\ arrived.body.kind = "return"
    /\ arrived.exit_raised = LoggerError
    /\ EmittedIds = <<2, 1>>

----------------------------------------------------------------------------
(* SpecThreads: two threads of one program call the wrapped functions of    *)
(* the tracker of examples.py. The interpreter may switch threads between   *)
(* any two statements of _enter and _exit, and between the read and the     *)
(* write of the += of line 32; list.append and list.pop are atomic.         *)

Threads == {1, 2}

\* A thread outside any wrapped call. The locals of _exit, and as history:
\* the number of the thread's call among all calls (call), the timestamp the
\* call pushed (pushed), which call pushed the timestamp and the accumulator
\* its exit popped (popped_from, acc_from; 0 is the root accumulator), whether
\* the call overlapped a call of the other thread, whether its record has been
\* logged.
IdleThread ==
    [pc |-> "idle", enter_time |-> 0, inner_total_time |-> 0, exit_time |-> 0,
     total_time |-> 0, partial_time |-> 0, last |-> 0,
     call |-> 0, pushed |-> 0, popped_from |-> 0, acc_from |-> 0, overlap |-> FALSE, logged |-> FALSE]

\* threads also holds, under "entering_owner" and "total_owner", which call
\* pushed each element of the tracker's two lists (history).
InitThreads ==
    /\ clock = 0
    /\ trackers = <<time_tracker.self>>
    /\ ctor = <<[do_time_tracking |-> TRUE, isolated |-> TRUE, when |-> 0]>>
    /\ decorated = [f \in Functions |->
                       [callable |-> time_track(1, time_tracker.self, Original(f)), by |-> 1]]
    /\ heap = time_tracker.heap
    /\ calls = <<>>
    /\ pending = NoExc
    /\ log = <<>>
    /\ emitted = <<>>
    /\ arrived = NoArrival
    /\ ncalls = 0
    /\ nraw = 0
    /\ threads = [frame |-> [th \in Threads |-> IdleThread],
                  entering_owner |-> <<>>,
                  total_owner |-> <<0>>]

ThreadSelf == trackers[1]

InCall(th) == threads.frame[th].pc # "idle"

\* wrapped, line 51-52, and _enter line 21: thread th calls a wrapped function;
\* self._entering_times.append(time.time()).
ThreadEnter21(th) ==
    /\ ~InCall(th)
    /\ ncalls < MaxThreadCalls
    /\ LET others == \E o \in Threads \ {th} : InCall(o)
       IN  threads' = [frame |-> [o \in Threads |->
                                     IF o = th
                                     THEN [IdleThread EXCEPT !.pc = "l22", !.call = ncalls + 1,
                                                             !.pushed = clock, !.overlap = others]
                                     ELSE [threads.frame[o] EXCEPT !.overlap = @ \/ InCall(o)]],
                       entering_owner |-> Append(threads.entering_owner, ncalls + 1),
                       total_owner |-> threads.total_owner]
    /\ heap' = [heap EXCEPT ![ThreadSelf._entering_times] =
                               _enter(ThreadSelf, heap, clock)[ThreadSelf._entering_times]]
    /\ ncalls' = ncalls + 1
    /\ UNCHANGED <<clock, trackers, ctor, decorated, calls, pending, log, emitted, arrived, nraw>>

\* _enter line 22: self._total_times.append(0).
ThreadEnter22(th) ==
    /\ threads.frame[th].pc = "l22"
    /\ threads' = [threads EXCEPT !.frame[th].pc = "body",
                                  !.total_owner = Append(@, threads.frame[th].call)]
    /\ heap' = [heap EXCEPT ![ThreadSelf._total_times] =
                               _enter(ThreadSelf, heap, clock)[ThreadSelf._total_times]]
    /\ UNCHANGED <<clock, trackers, ctor, decorated, calls, pending, log, emitted, arrived, ncalls, nraw>>

\* wrapped, lines 53-56: the body ends, by a return or a failure; the finally
\* clause starts _exit.
ThreadBodyEnds(th) ==
    /\ threads.frame[th].pc = "body"
    /\ threads' = [threads EXCEPT !.frame[th].pc = "l25"]
    /\ UNCHANGED <<clock, trackers, ctor, decorated, heap, calls, pending, log, emitted, arrived, ncalls, nraw>>

\* _exit line 25: enter_time = self._entering_times.pop().
ThreadExit25(th) ==
    /\ threads.frame[th].pc = "l25"
    /\ IF Len(heap[ThreadSelf._entering_times]) = 0
       THEN /\ threads' = [threads EXCEPT !.frame[th].pc = "IndexError"]
            /\ heap' = heap
       ELSE /\ threads' = [threads EXCEPT
                              !.frame[th].pc = "l26",
                              !.frame[th].enter_time = list_pop(heap[ThreadSelf._entering_times]).value,
                              !.frame[th].popped_from = Last(threads.entering_owner),
                              !.entering_owner = Front(@)]
            /\ heap' = [heap EXCEPT ![ThreadSelf._entering_times] = list_pop(@).rest]
    /\ UNCHANGED <<clock, trackers, ctor, decorated, calls, pending, log, emitted, arrived, ncalls, nraw>>

\* _exit line 26: inner_total_time = self._total_times.pop().
ThreadExit26(th) ==
    /\ threads.frame[th].pc = "l26"
    /\ IF Len(heap[ThreadSelf._total_times]) = 0
       THEN /\ threads' = [threads EXCEPT !.frame[th].pc = "IndexError"]
            /\ heap' = heap
       ELSE /\ threads' = [threads EXCEPT
                              !.frame[th].pc = "l28",
                              !.frame[th].inner_total_time = list_pop(heap[ThreadSelf._total_times]).value,
                              !.frame[th].acc_from = Last(threads.total_owner),
                              !.total_owner = Front(@)]
            /\ heap' = [heap EXCEPT ![ThreadSelf._total_times] = list_pop(@).rest]
    /\ UNCHANGED <<clock, trackers, ctor, decorated, calls, pending, log, emitted, arrived, ncalls, nraw>>

\* _exit lines 28-30: exit_time = time.time(); total_time; partial_time.
ThreadExit28(th) ==
    /\ threads.frame[th].pc = "l28"
    /\ LET fr == threads.frame[th]
           t == exit_times(fr.enter_time, fr.inner_total_time, clock)
       IN  threads' = [threads EXCEPT !.frame[th].pc = "l32",
                                      !.frame[th].exit_time = clock,
                                      !.frame[th].total_time = t.total_time,
                                      !.frame[th].partial_time = t.partial_time]
    /\ UNCHANGED <<clock, trackers, ctor, decorated, heap, calls, pending, log, emitted, arrived, ncalls, nraw>>

\* _exit line 32, first half: the value of self._total_times[-1] is read.
ThreadExit32Read(th) ==
    /\ threads.frame[th].pc = "l32"
    /\ IF Len(heap[ThreadSelf._total_times]) = 0
       THEN threads' = [threads EXCEPT !.frame[th].pc = "IndexError"]
       ELSE threads' = [threads EXCEPT !.frame[th].pc = "l32w",
                                       !.frame[th].last = Last(heap[ThreadSelf._total_times])]
    /\ UNCHANGED <<clock, trackers, ctor, decorated, heap, calls, pending, log, emitted, arrived, ncalls, nraw>>

\* _exit line 32, second half: the sum is stored into self._total_times[-1].
ThreadExit32Write(th) ==
    /\ threads.frame[th].pc = "l32w"
    /\ LET fr == threads.frame[th]
           l == heap[ThreadSelf._total_times]
       IN  IF Len(l) = 0
           THEN /\ threads' = [threads EXCEPT !.frame[th].pc = "IndexError"]
                /\ heap' = heap
           ELSE /\ threads' = [threads EXCEPT !.frame[th].pc = "l34"]
                /\ heap' = [heap EXCEPT ![ThreadSelf._total_times] =
                                           [l EXCEPT ![Len(l)] = fr.last + fr.total_time]]
    /\ UNCHANGED <<clock, trackers, ctor, decorated, calls, pending, log, emitted, arrived, ncalls, nraw>>

\* _exit lines 34-40: self._logger.log(...); the wrapped call is over.
ThreadExit34(th, function_name, args, kwargs) ==
    /\ threads.frame[th].pc = "l34"
    /\ LET fr == threads.frame[th]
       IN  /\ log' = Append(log, [function_name |-> function_name,
                                  args |-> args,
                                  kwargs |-> kwargs,
                                  total_time |-> fr.total_time,
                                  partial_time |-> fr.partial_time])
           /\ emitted' = Append(emitted, [id |-> th, tracker |-> 1, entry |-> fr.pushed,
                                          exit |-> fr.exit_time, encl |-> <<>>])
    /\ threads' = [threads EXCEPT !.frame[th].pc = "idle", !.frame[th].logged = TRUE]
    /\ UNCHANGED <<clock, trackers, ctor, decorated, heap, calls, pending, arrived, ncalls, nraw>>

NextThreads ==
    \/ Tick
    \/ \E th \in Threads :
          \/ ThreadEnter21(th)
          \/ ThreadEnter22(th)
          \/ ThreadBodyEnds(th)
          \/ ThreadExit25(th)
          \/ ThreadExit26(th)
          \/ ThreadExit28(th)
          \/ ThreadExit32Read(th)
          \/ ThreadExit32Write(th)
          \/ ThreadExit34(th, "f", <<1>>, {})

SpecThreads == InitThreads /\ [][NextThreads]_vars

\* The last call of thread th has logged its record.
ThreadLogged(th) == threads.frame[th].pc = "idle" /\ threads.frame[th].logged

\* The record of the last call of thread th has the call's own duration.
OwnTimes(th) ==
    LET fr == threads.frame[th]
    IN  /\ fr.total_time = fr.exit_time - fr.pushed
        /\ fr.partial_time = fr.total_time

\* C15: one tracker called from two threads is unsafe. A call that did not
\* overlap a call of the other thread pops what it pushed and its record has
\* its own times; a call's exit always reports the times of the entries it
\* popped, and with interleaved calls these may be the entries the other
\* thread pushed (C15_Witness).
C15_ThreadsUnsafe ==
    \A th \in Threads :
       LET fr == threads.frame[th]
       IN  /\ fr.pc # "IndexError"
           /\ ThreadLogged(th) =>
                 /\ fr.total_time = fr.exit_time - fr.enter_time
                 /\ fr.partial_time = fr.total_time - fr.inner_total_time
                 /\ fr.popped_from = fr.call => fr.total_time = fr.exit_time - fr.pushed
                 /\ ~fr.overlap => (fr.popped_from = fr.call /\ fr.acc_from = fr.call /\ OwnTimes(th))

\* The exit of a call of thread 1 popped the timestamp and the accumulator
\* that the call of thread 2 had pushed, and the record of thread 1's call has
\* not the times of that call.
C15_Witness ==
    /\ ThreadLogged(1)
    /\ threads.frame[1].call = 1
    /\ threads.frame[2].call = 2
    /\ threads.frame[1].popped_from = 2
    /\ threads.frame[1].acc_from = 2
    /\ threads.frame[1].total_time # threads.frame[1].exit_time - threads.frame[1].pushed
    /\ ~OwnTimes(1)

----------------------------------------------------------------------------
(* Further properties of SpecOps.                                           *)

\* The lists of tracker t after a successful _exit at time now, from what they were.
AfterExit(times, totals, now) ==
    LET total_time == now - Last(times)
        rest == Front(totals)
    IN  [entering_times |-> Front(times),
         total_times |-> [i \in 1..Len(rest) |->
                             IF i = Len(rest) THEN rest[i] + total_time ELSE rest[i]],
         total_time |-> total_time]

\* C16: an _exit that succeeds removes exactly the last element of each of the
\* two lists and adds the total_time of its record to the accumulator that is
\* then the last (the enclosing call's, or the root); every other timestamp
\* and accumulator, and every other list, is unchanged.
C16_ExitEffect ==
    [][Emits =>
         \E t \in TrackerIds :
           LET after == AfterExit(entering_times(t), total_times(t), clock)
           IN
             /\ t = Last(emitted').tracker
             /\ Len(entering_times(t)) >= 1
             /\ Len(total_times(t)) >= 2
             /\ Last(log').total_time = after.total_time
             /\ entering_times(t)' = after.entering_times
             /\ total_times(t)' = after.total_times
             /\ \A ref \in DOMAIN heap :
                   ref \notin {trackers[t]._entering_times, trackers[t]._total_times}
                      => heap'[ref] = heap[ref]]_vars

\* The exit of a call nested in another, one tick after its enter: the
\* enclosing call's accumulator is 1, its timestamp and the root are untouched.
C16_Witness ==
    /\ Len(calls) = 2
    /\ calls[2].pc = "done"
    /\ calls[1].pc = "body"
    /\ nraw = 0
    /\ Len(log) = 1
    /\ log[1].total_time = 1
    /\ entering_times(1) = <<calls[1].entry>>
    /\ total_times(1) = <<0, 1>>

----------------------------------------------------------------------------
(* Further properties of Spec: a logger that fails, the root accumulator.   *)

\* (history) The record of invocation id, as the logger received it.
LoggedFor(id) == log[RecordOf(id)]

\* C17: when logger.log raises in _exit, the tracker is balanced all the same:
\* _exit has popped both lists and added the call's total_time to the parent's
\* accumulator before calling the logger, so once the wrapper is done the depth
\* is what it was before the call, the two lists have lengths n and n + 1, and
\* the parent's (or root) accumulator holds the total_time of the call, added
\* to those of the direct nested calls that exited before it.
C17_BalancedOnLoggerFailure ==
    \A i \in DOMAIN calls :
       LET fr == calls[i]
       IN  (fr.pc = "done" /\ fr.exit_raised = LoggerError) =>
              /\ i = Len(calls)
              /\ DepthOf(fr) = fr.depth0
              /\ Len(entering_times(1)) = fr.depth0
              /\ Len(total_times(1)) = Len(entering_times(1)) + 1
              /\ RecordsOf(fr.id) = 1
              /\ emitted[RecordOf(fr.id)].entry = fr.entry
              /\ LoggedFor(fr.id).total_time = emitted[RecordOf(fr.id)].exit - fr.entry
              /\ Last(total_times(1)) = SumSeq(DirectChildTotals(ParentOf(emitted[RecordOf(fr.id)])))
              /\ Last(total_times(1)) >= LoggedFor(fr.id).total_time

\* The logger failed for call 2, nested in call 1, which took one tick: the
\* depth is 1 again and call 1's accumulator is 1.
C17_Witness ==
    /\ Len(calls) = 2
    /\ calls[2].pc = "done"
    /\ calls[2].exit_raised = LoggerError
    /\ calls[2].depth0 = 1
    /\ entering_times(1) = <<calls[1].entry>>
    /\ total_times(1) = <<0, 1>>
    /\ LoggedFor(2).total_time = 1

----------------------------------------------------------------------------
(* Further properties of SpecInstances: the root accumulator.               *)

\* (history) The records of the wrapped calls that ran at depth 1 of the stack
\* tracker t accounts on, made through any tracker that accounts on it.
TopLevelOn(t) ==
    SelectSeq(emitted, LAMBDA e : /\ trackers[e.tracker]._total_times = trackers[t]._total_times
                                  /\ ParentOf(e) = 0)

\* (history) The durations of the wrapped calls made through tracker t itself
\* that ran at depth 1 of its stack.
TopLevelTotalsOf(t) ==
    LET top == SelectSeq(TopLevelOn(t), LAMBDA e : e.tracker = t)
    IN  [i \in 1..Len(top) |-> TotalOf(top[i])]

\* (history) The same, for all the trackers that account on t's lists.
TopLevelTotalsOn(t) == [i \in 1..Len(TopLevelOn(t)) |-> TotalOf(TopLevelOn(t)[i])]

\* The root accumulator of tracker t: the first element of its _total_times.
RootTotal(t) == total_times(t)[1]

\* No call is between its enter and its exit on the stack of tracker t.
Empty(t) == entering_times(t) = <<>>

\* C18 as claimed: whenever an enabled tracker is empty, its root is the sum of
\* the total_time of the top-level wrapped calls completed on it since it was
\* built.
C18_AsClaimed ==
    \A t \in Constructed :
       (nraw = 0 /\ ctor[t].do_time_tracking /\ Empty(t))
          => total_times(t) = <<SumSeq(TopLevelTotalsOf(t))>>

\* C18, amended: the root accumulator is never reset. In a program that makes
\* no direct _enter/_exit calls, whenever a tracker is empty its root is the sum
\* of the total_time of the top-level wrapped calls completed on its lists: its
\* own calls since it was built if it is isolated, the calls of all the shared
\* trackers since the module was loaded if it is shared. The root is then 0
\* only if all these are 0, and no step makes a root smaller.
C18_RootAccumulates ==
    /\ [](\A t \in Constructed :
            /\ Len(total_times(t)) >= 1
            /\ (nraw = 0 /\ Empty(t)) =>
                  /\ total_times(t) = <<SumSeq(TopLevelTotalsOn(t))>>
                  /\ ctor[t].isolated => TopLevelTotalsOn(t) = TopLevelTotalsOf(t)
                  /\ RootTotal(t) = 0 =>
                        \A i \in DOMAIN TopLevelTotalsOn(t) : TopLevelTotalsOn(t)[i] = 0)
    /\ [][\A t \in Constructed : RootTotal(t)' >= RootTotal(t)]_vars

\* Shared tracker 2 was built after a call of one tick through shared tracker
\* 1, and a call of one tick was then made through tracker 2: the stack is
\* empty and the root of tracker 2 is 2.
C18_Witness ==
    /\ calls = <<>>
    /\ nraw = 0
    /\ SharedIds = {1, 2}
    /\ ctor[2].when = 1
    /\ Empty(2)
    /\ TopLevelTotalsOf(2) = <<1>>
    /\ TopLevelTotalsOn(2) = <<1, 1>>
    /\ total_times(2) = <<2>>

====
